---- MODULE Spec2Model ----
(***************************************************************************)
(* Lexicon-based sentiment analysis (Lab-5/Task_2.py) and, further down,  *)
(* the product recommender (Lab-5/Task_3.py).                              *)
(*                                                                         *)
(* Texts are strings; a character is a string of length 1.  Offsets into   *)
(* a text are 0-based as in the Python source, so text[a:b] is             *)
(* SubSeq(text, a + 1, b).                                                 *)
(*                                                                         *)
(* Every local variable of analyze_sentiment is a function of the caller   *)
(* (thread) that runs the call.  A caller that calls again finds in its    *)
(* slots whatever its previous call left there: the code has to assign a   *)
(* local before it reads it.                                               *)
(***************************************************************************)
EXTENDS Integers, Sequences, FiniteSets, TLC

VARIABLES pc, text, working_text, score, phrase_i, start, tokens, tok_i,
          negate_window, after_but, label, ncalls, output, stdin

\* the recommender of Lab-5/Task_3.py and one request made to it
VARIABLES user_history, search_term, num_recommendations, recommendations,
          rpc

svars == <<pc, text, working_text, score, phrase_i, start, tokens, tok_i,
           negate_window, after_but, label, ncalls, output, stdin>>

rvars == <<user_history, search_term, num_recommendations, recommendations,
           rpc>>

vars == <<svars, rvars>>

(* ------------------------------ bounds --------------------------------- *)

\* longest input line of lexicon words joined by single spaces
MaxWords == 4
\* longest input line of negation, "but", a neutral and a positive word
MaxScanWords == 5
\* longest input line built from punctuation, whitespace and word pieces
MaxSymbols == 3
\* calls one caller makes in a row
MaxCalls == 2

(* ------------------------------ lexicon -------------------------------- *)

POSITIVE_WORDS ==
    {"good", "great", "excellent", "amazing", "delicious", "happy", "love",
     "like", "wonderful", "fantastic", "nice", "pleasant", "satisfied",
     "tasty", "fresh", "awesome", "enjoy", "enjoyed", "enjoyable",
     "delightful"}

NEGATIVE_WORDS ==
    {"bad", "terrible", "awful", "horrible", "disgusting", "sad", "hate",
     "dislike", "worst", "poor", "nasty", "unpleasant", "unsatisfied",
     "stale", "bland", "cold", "overcooked", "undercooked"}

NEGATIONS ==
    {"not", "no", "never", "isn't", "wasn't", "aren't", "don't", "doesn't",
     "didn't", "can't", "won't", "n't"}

\* the dict in insertion order, which is the order .items() yields
PHRASE_SENTIMENT == << [phrase |-> "good taste", weight |-> -2] >>

(* ---------------------------- characters ------------------------------- *)

CharAt(s, i) == SubSeq(s, i + 1, i + 1)

UpperLetters == "ABCDEFGHIJKLMNOPQRSTUVWXYZ"
LowerLetters == "abcdefghijklmnopqrstuvwxyz"
Digits == "0123456789"

CharsOf(s) == {SubSeq(s, i, i) : i \in 1..Len(s)}

\* \w of the re module on str patterns, within ASCII
WordChars == CharsOf(UpperLetters) \cup CharsOf(LowerLetters)
                \cup CharsOf(Digits) \cup {"_"}

\* the characters str.strip() removes, within the characters modelled
Whitespace == {" ", "\t"}

UpperChars == CharsOf(UpperLetters)

\* the characters of the class [\w']
TokenChars == WordChars \cup {"'"}

LowerChar(ch) ==
    IF ch \in UpperChars
    THEN LET i == CHOOSE j \in 1..Len(UpperLetters) :
                      SubSeq(UpperLetters, j, j) = ch
         IN  SubSeq(LowerLetters, i, i)
    ELSE ch

RECURSIVE LowerFrom(_, _)
\* the characters of s from the i-th on, each in lower case
LowerFrom(s, i) ==
    IF i > Len(s) THEN ""
    ELSE LowerChar(SubSeq(s, i, i)) \o LowerFrom(s, i + 1)

\* str.lower()
Lower(s) == LowerFrom(s, 1)

RECURSIVE LStrip(_)
LStrip(s) ==
    IF s # "" /\ SubSeq(s, 1, 1) \in Whitespace
    THEN LStrip(SubSeq(s, 2, Len(s)))
    ELSE s

RECURSIVE RStrip(_)
RStrip(s) ==
    IF s # "" /\ SubSeq(s, Len(s), Len(s)) \in Whitespace
    THEN RStrip(SubSeq(s, 1, Len(s) - 1))
    ELSE s

\* str.strip()
Strip(s) == RStrip(LStrip(s))

RECURSIVE Spaces(_)
\* " " * n
Spaces(n) == IF n <= 0 THEN "" ELSE " " \o Spaces(n - 1)

\* Find that takes an occurrence only when it begins and ends at the edge
\* of a word
Find_WholeWords(s, sub, from) ==
    LET hits == {i \in from..(Len(s) - Len(sub)) :
                     /\ SubSeq(s, i + 1, i + Len(sub)) = sub
                     /\ i = 0 \/ CharAt(s, i - 1) \notin WordChars
                     /\ i + Len(sub) = Len(s)
                          \/ CharAt(s, i + Len(sub)) \notin WordChars}
    IN  IF hits = {} THEN -1
        ELSE CHOOSE i \in hits : \A j \in hits : i <= j

\* str.find(sub, from): lowest offset >= from where sub occurs, else -1
Find(s, sub, from) ==
    LET hits == {i \in from..(Len(s) - Len(sub)) :
                     SubSeq(s, i + 1, i + Len(sub)) = sub}
    IN  IF hits = {} THEN -1
        ELSE CHOOSE i \in hits : \A j \in hits : i <= j

(* ----------------------------- tokenizer ------------------------------- *)

\* \b at offset p of s: exactly one of the characters around p is a \w
Boundary(s, p) ==
    LET before == p > 0 /\ CharAt(s, p - 1) \in WordChars
        after  == p < Len(s) /\ CharAt(s, p) \in WordChars
    IN  before # after

RECURSIVE RunEnd(_, _)
\* the offset just past the run of [\w'] characters that begins at p
RunEnd(s, p) ==
    IF p < Len(s) /\ CharAt(s, p) \in TokenChars THEN RunEnd(s, p + 1) ELSE p

\* MatchEnds for the pattern without its trailing \b
MatchEnds_NoTrailingBoundary(s, p) ==
    IF RunEnd(s, p) > p THEN {RunEnd(s, p)} ELSE {}

\* ends e of a match of [\w']+\b that begins at offset p
MatchEnds(s, p) == {e \in (p + 1)..RunEnd(s, p) : Boundary(s, e)}

RECURSIVE FindAll(_, _)
\* re.findall(r"\b[\w']+\b", s) scanning from offset p; + is greedy, so a
\* match ends at the greatest end that satisfies the trailing \b
\* (the end e is bound by a quantifier so that it is evaluated once)
FindAll(s, p) ==
    IF p >= Len(s) THEN << >>
    ELSE LET ends == IF Boundary(s, p) THEN MatchEnds(s, p) ELSE {}
         IN  IF ends # {}
             THEN CHOOSE found \in
                      {<< SubSeq(s, p + 1, e) >> \o FindAll(s, e) :
                          e \in {x \in ends : \A y \in ends : y <= x}} : TRUE
             ELSE FindAll(s, p + 1)

\* return re.findall(r"\b[\w']+\b", text.lower())
_tokenize(s) ==
    CHOOSE found \in {FindAll(low, 0) : low \in {Lower(s)}} : TRUE

(* --------------------------- pure pipeline ----------------------------- *)

\* MaskOnce with the masking assignment left out
MaskOnce_NoMask(wt, sc, st, entry) ==
    LET idx == Find(wt, entry.phrase, st)
    IN  IF idx = -1
        THEN [found |-> FALSE, working_text |-> wt, score |-> sc, start |-> st]
        ELSE [found |-> TRUE, working_text |-> wt,
              score |-> sc + entry.weight, start |-> idx + Len(entry.phrase)]

\* MaskOnce with a filler one character shorter than the phrase
MaskOnce_ShortMask(wt, sc, st, entry) ==
    LET idx == Find(wt, entry.phrase, st)
        n   == Len(entry.phrase)
    IN  IF idx = -1
        THEN [found |-> FALSE, working_text |-> wt, score |-> sc, start |-> st]
        ELSE [found |-> TRUE,
              working_text |-> SubSeq(wt, 1, idx) \o Spaces(n - 1)
                                  \o SubSeq(wt, idx + n + 1, Len(wt)),
              score |-> sc + entry.weight,
              start |-> idx + n]

\* MaskOnce with `start = idx` for `start = idx + len(phrase)`
MaskOnce_NoAdvance(wt, sc, st, entry) ==
    LET idx == Find(wt, entry.phrase, st)
        n   == Len(entry.phrase)
    IN  IF idx = -1
        THEN [found |-> FALSE, working_text |-> wt, score |-> sc, start |-> st]
        ELSE [found |-> TRUE,
              working_text |-> SubSeq(wt, 1, idx) \o Spaces(n)
                                  \o SubSeq(wt, idx + n + 1, Len(wt)),
              score |-> sc + entry.weight,
              start |-> idx]

\* one pass of the body of the `while True` loop on (working text, score,
\* start) for one phrase entry; idx = -1 leaves the triple unchanged
MaskOnce(wt, sc, st, entry) ==
    LET idx == Find(wt, entry.phrase, st)
        n   == Len(entry.phrase)
    IN  IF idx = -1
        THEN [found |-> FALSE, working_text |-> wt, score |-> sc, start |-> st]
        ELSE [found |-> TRUE,
              working_text |-> SubSeq(wt, 1, idx) \o Spaces(n)
                                  \o SubSeq(wt, idx + n + 1, Len(wt)),
              score |-> sc + entry.weight,
              start |-> idx + n]

\* WordDelta without the elif branch for the negative words
WordDelta_NegativeIgnored(token) ==
    IF token \in POSITIVE_WORDS THEN 1 ELSE 0

\* base polarity of a token
WordDelta(token) ==
    IF token \in POSITIVE_WORDS THEN 1
    ELSE IF token \in NEGATIVE_WORDS THEN -1
    ELSE 0

\* Adjusted with `elif after_but` for the second `if`
Adjusted_FlipOrDouble(word_delta, nw, ab) ==
    IF nw > 0 THEN word_delta * (-1)
    ELSE IF ab THEN word_delta * 2
    ELSE word_delta

\* the amount a polarity token adds: flip under negation, then double
Adjusted(word_delta, nw, ab) ==
    LET flipped == IF nw > 0 THEN word_delta * (-1) ELSE word_delta
    IN  IF ab THEN flipped * 2 ELSE flipped

\* ScanWord with the decrement outside its `if negate_window > 0`
ScanWord_DecrementUnguarded(token, sc, nw, ab) ==
    [score |-> IF WordDelta(token) # 0
               THEN sc + Adjusted(WordDelta(token), nw, ab)
               ELSE sc,
     negate_window |-> nw - 1,
     after_but |-> ab]

\* the rest of the loop body for a token that is neither "but" nor a marker
ScanWord(token, sc, nw, ab) ==
    [score |-> IF WordDelta(token) # 0
               THEN sc + Adjusted(WordDelta(token), nw, ab)
               ELSE sc,
     negate_window |-> IF nw > 0 THEN nw - 1 ELSE nw,
     after_but |-> ab]

\* ScanToken with `negate_window += 3` at a negation marker
ScanToken_Stacking(token, sc, nw, ab) ==
    IF token = "but"
    THEN [score |-> sc, negate_window |-> nw, after_but |-> TRUE]
    ELSE IF token \in NEGATIONS
    THEN [score |-> sc, negate_window |-> nw + 3, after_but |-> ab]
    ELSE ScanWord(token, sc, nw, ab)

\* ScanToken with the decrement moved inside `if word_delta != 0`
ScanToken_CountPolarityOnly(token, sc, nw, ab) ==
    IF token = "but"
    THEN [score |-> sc, negate_window |-> nw, after_but |-> TRUE]
    ELSE IF token \in NEGATIONS
    THEN [score |-> sc, negate_window |-> 3, after_but |-> ab]
    ELSE IF WordDelta(token) # 0
    THEN ScanWord(token, sc, nw, ab)
    ELSE [score |-> sc, negate_window |-> nw, after_but |-> ab]

\* ScanToken without the `continue` of the "but" branch
ScanToken_ButFallsThrough(token, sc, nw, ab) ==
    IF token = "but"
    THEN ScanWord(token, sc, nw, TRUE)
    ELSE IF token \in NEGATIONS
    THEN [score |-> sc, negate_window |-> 3, after_but |-> ab]
    ELSE ScanWord(token, sc, nw, ab)

\* ScanToken with `after_but = not after_but` at "but"
ScanToken_ButToggles(token, sc, nw, ab) ==
    IF token = "but"
    THEN [score |-> sc, negate_window |-> nw, after_but |-> ~ab]
    ELSE IF token \in NEGATIONS
    THEN [score |-> sc, negate_window |-> 3, after_but |-> ab]
    ELSE ScanWord(token, sc, nw, ab)

\* one iteration of `for token in tokens` on (score, negate_window, after_but)
ScanToken(token, sc, nw, ab) ==
    IF token = "but"
    THEN [score |-> sc, negate_window |-> nw, after_but |-> TRUE]
    ELSE IF token \in NEGATIONS
    THEN [score |-> sc, negate_window |-> 3, after_but |-> ab]
    ELSE ScanWord(token, sc, nw, ab)

\* Classify with the two comparisons exchanged
Classify_Inverted(sc) ==
    IF sc < 0 THEN "positive"
    ELSE IF sc > 0 THEN "negative"
    ELSE "neutral"

\* Classify with `score >= 0` for `score > 0`
Classify_ZeroPositive(sc) ==
    IF sc >= 0 THEN "positive"
    ELSE IF sc < 0 THEN "negative"
    ELSE "neutral"

\* the final if-chain
Classify(sc) ==
    IF sc > 0 THEN "positive"
    ELSE IF sc < 0 THEN "negative"
    ELSE "neutral"

RECURSIVE MaskAll(_, _, _, _)
\* the whole `for phrase, phrase_weight in PHRASE_SENTIMENT.items()` loop
\* from entry k on: the masked text and the score the phrases add up to
MaskAll(wt, sc, st, k) ==
    IF k > Len(PHRASE_SENTIMENT)
    THEN [working_text |-> wt, score |-> sc]
    ELSE LET r == MaskOnce(wt, sc, st, PHRASE_SENTIMENT[k])
         IN  IF r.found
             THEN MaskAll(r.working_text, r.score, r.start, k)
             ELSE MaskAll(wt, sc, 0, k + 1)

RECURSIVE ScanAll(_, _, _, _, _)
\* the whole `for token in tokens` loop from token i on: the final score
ScanAll(toks, i, sc, nw, ab) ==
    IF i > Len(toks) THEN sc
    ELSE LET r == ScanToken(toks[i], sc, nw, ab)
         IN  ScanAll(toks, i + 1, r.score, r.negate_window, r.after_but)

\* the body of analyze_sentiment below the early return, run on any text
Scored(s) ==
    LET m == MaskAll(Lower(s), 0, 0, 1)
    IN  Classify(ScanAll(_tokenize(m.working_text), 1, m.score, 0, FALSE))

(* ------------------------------ inputs --------------------------------- *)

Vocabulary == {"good", "bad", "not", "but", "that", "taste"}

ScanVocabulary == {"not", "but", "that", "good"}

Symbols == {" ", "\t", ",", "'", "Good", "taste", "n't", "bad"}

RECURSIVE Join(_, _)
\* the strings of ws in order, separated by sep
Join(ws, sep) ==
    IF Len(ws) = 0 THEN ""
    ELSE IF Len(ws) = 1 THEN ws[1]
    ELSE ws[1] \o sep \o Join(Tail(ws), sep)

SeqsUpTo(S, n) == UNION {[1..k -> S] : k \in 0..n}

WordTexts == {Join(ws, " ") : ws \in SeqsUpTo(Vocabulary, MaxWords)}

SymbolTexts == {Join(ps, "") : ps \in SeqsUpTo(Symbols, MaxSymbols)}

ScanTexts == {Join(ws, " ") : ws \in SeqsUpTo(ScanVocabulary, MaxScanWords)}

\* the worked examples of the documentation
Scenarios ==
    {"good", "not good", "the movie is not that good",
     "The food is delicious", "that guy is not comfortable with us",
     "the food is delicious but the service was bad",
     "the good taste of it", "good taste good taste",
     "not that good but bad", "not good taste", "but good taste",
     "good tastebad", "nogood taste", "'good'"}

\* the lines the interactive shell may read
Inputs == WordTexts \cup ScanTexts \cup SymbolTexts \cup Scenarios

\* the texts callers running side by side pass in
CallInputs == {"", "that", "not good but bad"}

ShellCallers == {"shell"}
SideBySide == {"a", "b"}

(* ------------------------------ state ---------------------------------- *)

Callers == DOMAIN pc

\* what the standard input holds: a line, or nothing (end of input)
EndOfInput == [eof |-> TRUE, line |-> ""]
Line(l) == [eof |-> FALSE, line |-> l]

\* the slots of the callers in C before any call; where is the program
\* point every caller starts at
Slots(C, where) ==
    /\ pc = [c \in C |-> where]
    /\ text = [c \in C |-> ""]
    /\ working_text = [c \in C |-> ""]
    /\ score = [c \in C |-> 0]
    /\ phrase_i = [c \in C |-> 1]
    /\ start = [c \in C |-> 0]
    /\ tokens = [c \in C |-> << >>]
    /\ tok_i = [c \in C |-> 1]
    /\ negate_window = [c \in C |-> 0]
    /\ after_but = [c \in C |-> FALSE]
    /\ label = [c \in C |-> ""]
    /\ ncalls = [c \in C |-> 0]
    /\ output = ""

\* no recommender at work
NoRecommender ==
    /\ user_history = << >>
    /\ search_term = ""
    /\ num_recommendations = 0
    /\ recommendations = << >>
    /\ rpc = "off"

\* the interactive shell: one caller, about to read its line
Init ==
    /\ NoRecommender
    /\ Slots(ShellCallers, "input")
    /\ stdin \in {EndOfInput} \cup {Line(l) : l \in Inputs}

\* callers of analyze_sentiment running side by side, none in a call yet
InitCalls ==
    /\ NoRecommender
    /\ Slots(SideBySide, "idle")
    /\ stdin = EndOfInput

(* ------------------------------ main ----------------------------------- *)

\* input() returns a line
ReadLine(c) ==
    /\ pc[c] = "input"
    /\ ~stdin.eof
    /\ text' = [text EXCEPT ![c] = stdin.line]
    /\ pc' = [pc EXCEPT ![c] = "enter"]
    /\ ncalls' = [ncalls EXCEPT ![c] = @ + 1]
    /\ UNCHANGED <<working_text, score, phrase_i, start, tokens, tok_i,
                   negate_window, after_but, label, output, stdin, rvars>>

\* ReadEOF without the try/except: the EOFError leaves main
ReadEOF_Unhandled(c) ==
    /\ pc[c] = "input"
    /\ stdin.eof
    /\ pc' = [pc EXCEPT ![c] = "raised"]
    /\ UNCHANGED <<text, working_text, score, phrase_i, start, tokens, tok_i,
                   negate_window, after_but, label, ncalls, output, stdin, rvars>>

\* input() raises EOFError and the handler sets text = ""
ReadEOF(c) ==
    /\ pc[c] = "input"
    /\ stdin.eof
    /\ text' = [text EXCEPT ![c] = ""]
    /\ pc' = [pc EXCEPT ![c] = "enter"]
    /\ ncalls' = [ncalls EXCEPT ![c] = @ + 1]
    /\ UNCHANGED <<working_text, score, phrase_i, start, tokens, tok_i,
                   negate_window, after_but, label, output, stdin, rvars>>

\* print(f"{label} sentiment")
PrintLabel(c) ==
    /\ pc[c] = "returned"
    /\ output' = label[c] \o " sentiment"
    /\ pc' = [pc EXCEPT ![c] = "done"]
    /\ UNCHANGED <<text, working_text, score, phrase_i, start, tokens, tok_i,
                   negate_window, after_but, label, ncalls, stdin, rvars>>

(* ------------------------ analyze_sentiment ---------------------------- *)

\* a caller other than the shell calls analyze_sentiment(line), for the
\* first time or again after its previous call returned
Call(c) ==
    /\ pc[c] \in {"idle", "returned"}
    /\ ncalls[c] < MaxCalls
    /\ \E line \in CallInputs : text' = [text EXCEPT ![c] = line]
    /\ pc' = [pc EXCEPT ![c] = "enter"]
    /\ ncalls' = [ncalls EXCEPT ![c] = @ + 1]
    /\ UNCHANGED <<working_text, score, phrase_i, start, tokens, tok_i,
                   negate_window, after_but, label, output, stdin, rvars>>

\* Enter without `score = 0`
Enter_KeepsScore(c) ==
    /\ pc[c] = "enter"
    /\ IF text[c] = "" \/ Strip(text[c]) = ""
       THEN /\ label' = [label EXCEPT ![c] = "neutral"]
            /\ pc' = [pc EXCEPT ![c] = "returned"]
            /\ UNCHANGED <<working_text, phrase_i, start>>
       ELSE /\ working_text' = [working_text EXCEPT ![c] = Lower(text[c])]
            /\ phrase_i' = [phrase_i EXCEPT ![c] = 1]
            /\ start' = [start EXCEPT ![c] = 0]
            /\ pc' = [pc EXCEPT ![c] = "mask"]
            /\ UNCHANGED label
    /\ UNCHANGED <<text, score, tokens, tok_i, negate_window, after_but,
                   ncalls, output, stdin, rvars>>

\* the guard of the early return, then the initialisation up to the first
\* entry of the phrase loop
Enter(c) ==
    /\ pc[c] = "enter"
    /\ IF text[c] = "" \/ Strip(text[c]) = ""
       THEN /\ label' = [label EXCEPT ![c] = "neutral"]
            /\ pc' = [pc EXCEPT ![c] = "returned"]
            /\ UNCHANGED <<working_text, score, phrase_i, start, stdin, rvars>>
       ELSE /\ working_text' = [working_text EXCEPT ![c] = Lower(text[c])]
            /\ score' = [score EXCEPT ![c] = 0]
            /\ phrase_i' = [phrase_i EXCEPT ![c] = 1]
            /\ start' = [start EXCEPT ![c] = 0]
            /\ pc' = [pc EXCEPT ![c] = "mask"]
            /\ UNCHANGED label
    /\ UNCHANGED <<text, tokens, tok_i, negate_window, after_but, ncalls,
                   output, stdin, rvars>>

\* one pass of the `while True` body; on a miss move on to the next phrase
\* entry, or to the tokenizer after the last one
MaskStep(c) ==
    /\ pc[c] = "mask"
    /\ LET r == MaskOnce(working_text[c], score[c], start[c],
                         PHRASE_SENTIMENT[phrase_i[c]])
       IN  IF r.found
           THEN /\ working_text' = [working_text EXCEPT ![c] = r.working_text]
                /\ score' = [score EXCEPT ![c] = r.score]
                /\ start' = [start EXCEPT ![c] = r.start]
                /\ UNCHANGED <<pc, phrase_i, stdin, rvars>>
           ELSE /\ IF phrase_i[c] < Len(PHRASE_SENTIMENT)
                   THEN /\ phrase_i' = [phrase_i EXCEPT ![c] = @ + 1]
                        /\ start' = [start EXCEPT ![c] = 0]
                        /\ UNCHANGED pc
                   ELSE /\ pc' = [pc EXCEPT ![c] = "tokenize"]
                        /\ UNCHANGED <<phrase_i, start, stdin, rvars>>
                /\ UNCHANGED <<working_text, score, stdin, rvars>>
    /\ UNCHANGED <<text, tokens, tok_i, negate_window, after_but, label,
                   ncalls, output, stdin, rvars>>

\* TokenizeStep on the text as given instead of the working text
TokenizeStep_FromText(c) ==
    /\ pc[c] = "tokenize"
    /\ tokens' = [tokens EXCEPT ![c] = _tokenize(text[c])]
    /\ negate_window' = [negate_window EXCEPT ![c] = 0]
    /\ after_but' = [after_but EXCEPT ![c] = FALSE]
    /\ tok_i' = [tok_i EXCEPT ![c] = 1]
    /\ pc' = [pc EXCEPT ![c] = "scan"]
    /\ UNCHANGED <<text, working_text, score, phrase_i, start, label, ncalls,
                   output, stdin, rvars>>

\* tokens = _tokenize(working_text); negate_window = 0; after_but = False
TokenizeStep(c) ==
    /\ pc[c] = "tokenize"
    /\ tokens' = [tokens EXCEPT ![c] = _tokenize(working_text[c])]
    /\ negate_window' = [negate_window EXCEPT ![c] = 0]
    /\ after_but' = [after_but EXCEPT ![c] = FALSE]
    /\ tok_i' = [tok_i EXCEPT ![c] = 1]
    /\ pc' = [pc EXCEPT ![c] = "scan"]
    /\ UNCHANGED <<text, working_text, score, phrase_i, start, label, ncalls,
                   output, stdin, rvars>>

\* one iteration of `for token in tokens`
ScanStep(c) ==
    /\ pc[c] = "scan"
    /\ tok_i[c] <= Len(tokens[c])
    /\ LET r == ScanToken(tokens[c][tok_i[c]], score[c], negate_window[c],
                          after_but[c])
       IN  /\ score' = [score EXCEPT ![c] = r.score]
           /\ negate_window' = [negate_window EXCEPT ![c] = r.negate_window]
           /\ after_but' = [after_but EXCEPT ![c] = r.after_but]
    /\ tok_i' = [tok_i EXCEPT ![c] = @ + 1]
    /\ UNCHANGED <<pc, text, working_text, phrase_i, start, tokens, label,
                   ncalls, output, stdin, rvars>>

\* the loop is exhausted: return the label of the score
Return(c) ==
    /\ pc[c] = "scan"
    /\ tok_i[c] > Len(tokens[c])
    /\ label' = [label EXCEPT ![c] = Classify(score[c])]
    /\ pc' = [pc EXCEPT ![c] = "returned"]
    /\ UNCHANGED <<text, working_text, score, phrase_i, start, tokens, tok_i,
                   negate_window, after_but, ncalls, output, stdin, rvars>>

Next ==
    \/ \E c \in Callers : ReadLine(c)
    \/ \E c \in Callers : ReadEOF(c)
    \/ \E c \in Callers : Enter(c)
    \/ \E c \in Callers : MaskStep(c)
    \/ \E c \in Callers : TokenizeStep(c)
    \/ \E c \in Callers : ScanStep(c)
    \/ \E c \in Callers : Return(c)
    \/ \E c \in Callers : PrintLabel(c)

Spec == Init /\ [][Next]_vars

NextCalls ==
    \/ \E c \in Callers : Call(c)
    \/ \E c \in Callers : Enter(c)
    \/ \E c \in Callers : MaskStep(c)
    \/ \E c \in Callers : TokenizeStep(c)
    \/ \E c \in Callers : ScanStep(c)
    \/ \E c \in Callers : Return(c)

SpecCalls == InitCalls /\ [][NextCalls]_vars

\* the shell run to its end: the interpreter keeps executing while a
\* statement is left to execute
FairSpec == Spec /\ WF_vars(Next)

(* ------------------- product recommender (Task_3.py) ------------------- *)

\* self.products; a dict is a sequence of entries in insertion order
products ==
    <<[category |-> "clothes",
       subcategories |-> <<
           [subcategory |-> "casual",
            products |->
              <<"T-Shirt", "Jeans", "Sneakers", "Hoodie", "Sweatpants">>],
           [subcategory |-> "formal",
            products |->
              <<"Suit", "Dress Shirt", "Tie", "Dress Shoes", "Blazer">>],
           [subcategory |-> "sports",
            products |->
              <<"Sports Jersey", "Athletic Shorts", "Running Shoes",
                "Sports Bra", "Track Pants">>],
           [subcategory |-> "winter",
            products |->
              <<"Winter Jacket", "Sweater", "Scarf", "Gloves", "Boots">>]>>],
      [category |-> "mobile",
       subcategories |-> <<
           [subcategory |-> "smartphones",
            products |->
              <<"iPhone 15", "Samsung Galaxy S24", "Google Pixel 8",
                "OnePlus 12", "Xiaomi 14">>],
           [subcategory |-> "accessories",
            products |->
              <<"Phone Case", "Screen Protector", "Wireless Charger",
                "Power Bank", "Bluetooth Headphones">>],
           [subcategory |-> "tablets",
            products |->
              <<"iPad Pro", "Samsung Galaxy Tab", "Amazon Fire Tablet",
                "Lenovo Tab", "Microsoft Surface">>]>>],
      [category |-> "toys",
       subcategories |-> <<
           [subcategory |-> "educational",
            products |->
              <<"Building Blocks", "Puzzle Set", "Science Kit",
                "Art Supplies", "Learning Tablet">>],
           [subcategory |-> "action",
            products |->
              <<"Action Figures", "Remote Control Car", "Drones", "Nerf Guns",
                "Robot Toys">>],
           [subcategory |-> "board_games",
            products |->
              <<"Chess", "Monopoly", "Scrabble", "Risk", "Catan">>],
           [subcategory |-> "outdoor",
            products |->
              <<"Bicycle", "Scooter", "Trampoline", "Swimming Pool",
                "Tennis Racket">>]>>],
      [category |-> "games",
       subcategories |-> <<
           [subcategory |-> "pc_games",
            products |->
              <<"Cyberpunk 2077", "Elden Ring", "Red Dead Redemption 2",
                "The Witcher 3", "GTA V">>],
           [subcategory |-> "console_games",
            products |->
              <<"God of War", "Spider-Man", "Zelda: Tears of Kingdom",
                "Mario Kart", "FIFA 24">>],
           [subcategory |-> "mobile_games",
            products |->
              <<"PUBG Mobile", "Candy Crush", "Among Us", "Clash of Clans",
                "Pokemon Go">>]>>],
      [category |-> "electronics",
       subcategories |-> <<
           [subcategory |-> "laptops",
            products |->
              <<"MacBook Pro", "Dell XPS", "HP Spectre", "Lenovo ThinkPad",
                "ASUS ROG">>],
           [subcategory |-> "gaming",
            products |->
              <<"Gaming Mouse", "Mechanical Keyboard", "Gaming Headset",
                "Graphics Card", "Gaming Monitor">>],
           [subcategory |-> "home",
            products |->
              <<"Smart TV", "Bluetooth Speaker", "Smart Bulbs",
                "Security Camera", "Robot Vacuum">>]>>],
      [category |-> "books",
       subcategories |-> <<
           [subcategory |-> "fiction",
            products |->
              <<"The Great Gatsby", "1984", "To Kill a Mockingbird",
                "Pride and Prejudice", "The Hobbit">>],
           [subcategory |-> "non_fiction",
            products |->
              <<"Sapiens", "Atomic Habits", "Rich Dad Poor Dad",
                "The Power of Now", "Thinking Fast and Slow">>],
           [subcategory |-> "self_help",
            products |->
              <<"The 7 Habits", "How to Win Friends", "The Secret", "Mindset",
                "Deep Work">>]>>]>>

\* self.category_mappings
category_mappings ==
    <<[category |-> "clothes",
       keywords |->
         <<"clothes", "clothing", "apparel", "fashion", "wear", "dress">>],
      [category |-> "mobile",
       keywords |->
         <<"mobile", "phone", "smartphone", "cellphone", "telephone">>],
      [category |-> "toys",
       keywords |->
         <<"toys", "toy", "play", "children", "kids">>],
      [category |-> "games",
       keywords |->
         <<"games", "game", "gaming", "play", "entertainment">>],
      [category |-> "electronics",
       keywords |->
         <<"electronics", "electronic", "tech", "technology", "gadgets">>],
      [category |-> "books",
       keywords |->
         <<"books", "book", "reading", "literature", "novel">>]>>

\* products of every subcategory that are taken into the catalog checked
MaxItems == 1
\* largest num_recommendations asked for
MaxRecommendations == 4
\* searches a fresh recommender records before the request
MaxHistory == 1

Min(a, b) == IF a <= b THEN a ELSE b

\* self.products with the first MaxItems products of every subcategory
Catalog ==
    [i \in DOMAIN products |->
        [category |-> products[i].category,
         subcategories |->
            [j \in DOMAIN products[i].subcategories |->
                [subcategory |-> products[i].subcategories[j].subcategory,
                 products |->
                    SubSeq(products[i].subcategories[j].products, 1,
                           Min(MaxItems,
                               Len(products[i].subcategories[j].products)))]]]]

\* the keys of self.products
Categories == {Catalog[i].category : i \in DOMAIN Catalog}

\* self.products[category]
category_products(category) ==
    (CHOOSE e \in {Catalog[i] : i \in DOMAIN Catalog} :
        e.category = category).subcategories

RECURSIVE Flatten(_, _)
\* all_products.extend(products) for the subcategories from the k-th on
Flatten(subs, k) ==
    IF k > Len(subs) THEN << >>
    ELSE subs[k].products \o Flatten(subs, k + 1)

\* ProductRecommender.get_category_from_search: the first category, in the
\* order of category_mappings, one of whose keywords occurs in the
\* lowercased term
get_category_from_search(term) ==
    LET search_lower == Lower(term)
        hits == {i \in DOMAIN category_mappings :
                    \E k \in DOMAIN category_mappings[i].keywords :
                        Find(search_lower,
                             category_mappings[i].keywords[k], 0) # -1}
    IN  IF hits = {} THEN "general"
        ELSE category_mappings[CHOOSE i \in hits :
                                  \A j \in hits : i <= j].category

\* the lists random.sample(population, k) can return: the entries at k
\* distinct positions, in any order
Samples(population, k) ==
    {[i \in 1..k |-> population[f[i]]] :
        f \in {g \in [1..k -> 1..Len(population)] :
                  \A a, b \in 1..k : a # b => g[a] # g[b]}}

\* the products random.choice can draw for one search of the history:
\* any product of any subcategory
Choices(subs) ==
    {subs[j].products[k] : j \in DOMAIN subs, k \in 1..MaxItems}

RECURSIVE HistoryFrom(_, _)
\* the lists the loop `for search in recent_searches` can build from the
\* i-th search on
HistoryFrom(recent_searches, i) ==
    IF i > Len(recent_searches) THEN {<< >>}
    ELSE LET category == get_category_from_search(recent_searches[i])
             here == IF category \in Categories
                     THEN {<< p >> :
                              p \in Choices(category_products(category))}
                     ELSE {<< >>}
         IN  {h \o t : h \in here,
                       t \in HistoryFrom(recent_searches, i + 1)}

\* ProductRecommender.get_history_based_recommendations: the lists it can
\* return for the history given
get_history_based_recommendations(history) ==
    HistoryFrom(SubSeq(history, IF Len(history) > 3 THEN Len(history) - 2
                                                    ELSE 1,
                       Len(history)), 1)

\* Dedupe that keeps every entry
Dedupe_KeepsAll(list) == list

RECURSIVE DedupeFrom(_, _)
DedupeFrom(list, i) ==
    IF i > Len(list) THEN << >>
    ELSE (IF \E j \in 1..(i - 1) : list[j] = list[i] THEN << >>
          ELSE << list[i] >>) \o DedupeFrom(list, i + 1)

\* list(dict.fromkeys(list)): the first occurrence of every entry, in order
Dedupe(list) == DedupeFrom(list, 1)

\* list[:n] for n >= 0
Take(list, n) == SubSeq(list, 1, Min(n, Len(list)))

\* the search terms typed
SearchTerms == {"Novel", "phone", "shoes"}

\* four searches recorded before the request
Earlier == <<"phone", "shoes", "novel", "phone">>

\* a recommender: fresh, or one that has recorded four searches
InitRec ==
    /\ Slots({}, "idle")
    /\ stdin = EndOfInput
    /\ user_history \in {<< >>, Earlier}
    /\ search_term = ""
    /\ num_recommendations = 0
    /\ recommendations = << >>
    /\ rpc = "ready"

\* ProductRecommender.add_to_history
add_to_history(term) ==
    /\ rpc = "ready"
    /\ Len(user_history) < MaxHistory
    /\ user_history' = Append(user_history, Lower(term))
    /\ UNCHANGED <<search_term, num_recommendations, recommendations, rpc,
                   svars>>

\* ProductRecommender.get_recommendations(term, n); recommendations is the
\* list it returns
get_recommendations(term, n) ==
    /\ rpc = "ready"
    /\ LET category == get_category_from_search(term)
           all_products == IF category \in Categories
                           THEN Flatten(category_products(category), 1)
                           ELSE << >>
           samples == IF category \in Categories
                      THEN Samples(all_products, Min(n, Len(all_products)))
                      ELSE {<< >>}
           histories == IF user_history # << >>
                        THEN get_history_based_recommendations(user_history)
                        ELSE {<< >>}
       IN  \E sample \in samples, history_recommendations \in histories :
              recommendations' =
                  Take(Dedupe(sample \o history_recommendations), n)
    /\ search_term' = term
    /\ num_recommendations' = n
    /\ rpc' = "answered"
    /\ UNCHANGED <<user_history, svars>>

NextRec ==
    \/ \E term \in SearchTerms : add_to_history(term)
    \/ \E term \in SearchTerms, n \in 0..MaxRecommendations :
          get_recommendations(term, n)

SpecRec == InitRec /\ [][NextRec]_vars

(* ------------------- vocabulary of the properties ---------------------- *)

\* the call of caller c has returned
Returned(c) == pc[c] \in {"returned", "done"}

\* empty or made of whitespace only
Blank(s) == \A i \in 1..Len(s) : SubSeq(s, i, i) \in Whitespace

\* the call of caller c went past the early return
PastGuard(c) == pc[c] \in {"mask", "tokenize", "scan"}
                    \/ (Returned(c) /\ ~Blank(text[c]))

\* offsets at which sub occurs in s
Occurrences(s, sub) ==
    {i \in 0..(Len(s) - Len(sub)) : SubSeq(s, i + 1, i + Len(sub)) = sub}

RECURSIVE LeftToRight(_, _)
\* the occurrences picked from left to right without overlap: the
\* leftmost one, then the leftmost one that begins at or after its end
LeftToRight(occ, n) ==
    IF occ = {} THEN {}
    ELSE LET first == CHOOSE i \in occ : \A j \in occ : i <= j
         IN  {first} \cup LeftToRight({j \in occ : j >= first + n}, n)

\* the spans of s the phrase masker matches for the key phrase
Matched(s, phrase) == LeftToRight(Occurrences(s, phrase), Len(phrase))

ThePhrase == PHRASE_SENTIMENT[1].phrase
TheWeight == PHRASE_SENTIMENT[1].weight

\* offset i of s lies inside a span of length n that begins in spans
Inside(i, spans, n) == \E b \in spans : b <= i /\ i < b + n

RECURSIVE BlankedFrom(_, _, _, _)
BlankedFrom(s, spans, n, i) ==
    IF i >= Len(s) THEN ""
    ELSE (IF Inside(i, spans, n) THEN " " ELSE CharAt(s, i))
            \o BlankedFrom(s, spans, n, i + 1)

\* s with every character of every matched span replaced by a space
Blanked(s) == BlankedFrom(s, Matched(s, ThePhrase), Len(ThePhrase), 0)

Polarity(token) ==
    IF token \in POSITIVE_WORDS THEN 1
    ELSE IF token \in NEGATIVE_WORDS THEN 0 - 1
    ELSE 0

\* how many tokens of toks lie in the set S
Count(toks, S) == Cardinality({i \in 1..Len(toks) : toks[i] \in S})

SignLabel(n) ==
    CASE n > 0 -> "positive"
      [] n < 0 -> "negative"
      [] n = 0 -> "neutral"

\* neither "but" nor a negation marker
Ordinary(token) == token # "but" /\ token \notin NEGATIONS

(* ------------------------------- C1 ------------------------------------ *)

\* no negation marker and no "but" among toks, no override phrase in low
Plain(toks, low) ==
    /\ \A i \in 1..Len(toks) : Ordinary(toks[i])
    /\ Occurrences(low, ThePhrase) = {}

\* C1: when the input has no negation marker, no "but" and no occurrence
\* of the override phrase, the final score is the number of positive-word
\* tokens minus the number of negative-word tokens, and the label returned
\* is the sign of that difference (a call that returns early on blank
\* input has no score; its label is the sign of 0).
C1_PlainScore ==
    \A c \in Callers :
        Returned(c) =>
            LET toks == _tokenize(text[c])
                diff == Count(toks, POSITIVE_WORDS)
                          - Count(toks, NEGATIVE_WORDS)
            IN  Plain(toks, Lower(text[c])) =>
                    /\ ~Blank(text[c]) => score[c] = diff
                    /\ label[c] = SignLabel(diff)

C1_Witness ==
    \E c \in Callers :
        /\ Returned(c)
        /\ text[c] = "good bad good"
        /\ score[c] = 1 /\ label[c] = "positive"

(* ------------------------------- C2 ------------------------------------ *)

\* C2: the phrase masker adds the weight of the phrase once per occurrence
\* picked left to right without overlap, and what the token scan sees is
\* the text with every matched span blanked, so no word inside a matched
\* span reaches the scan.
C2_PhraseOnceAndMasked ==
    \A c \in Callers :
        /\ pc[c] = "tokenize" =>
              LET low == Lower(text[c])
              IN  /\ score[c] = TheWeight
                                  * Cardinality(Matched(low, ThePhrase))
                  /\ working_text[c] = Blanked(low)
        /\ (Returned(c) /\ ~Blank(text[c])) =>
              tokens[c] = _tokenize(Blanked(Lower(text[c])))

\* "good taste good taste": two adjacent occurrences, -4 in total, and
\* nothing left to scan
C2_Witness ==
    \E c \in Callers :
        /\ text[c] = "good taste good taste"
        /\ Returned(c)
        /\ score[c] = 0 - 4
        /\ tokens[c] = << >>

\* "the good taste of it" scores -2
C2_WitnessInside ==
    \E c \in Callers :
        /\ text[c] = "the good taste of it"
        /\ Returned(c)
        /\ tokens[c] = <<"the", "of", "it">>
        /\ score[c] = 0 - 2

(* ------------------------------- C3 ------------------------------------ *)

\* the position of the last negation marker among toks[1..n], 0 if none
LastMarker(toks, n) ==
    LET ms == {j \in 1..n : toks[j] \in NEGATIONS}
    IN  IF ms = {} THEN 0 ELSE CHOOSE j \in ms : \A k \in ms : k <= j

\* how many of toks[a..b] are ordinary tokens
OrdinaryIn(toks, a, b) == Cardinality({k \in a..b : Ordinary(toks[k])})

\* the window left once toks[1..n] have been scanned: 3 at the last
\* marker, one less for every ordinary token after it, never below 0
WindowAfter(toks, n) ==
    LET m    == LastMarker(toks, n)
        used == OrdinaryIn(toks, m + 1, n)
    IN  IF m = 0 \/ used >= 3 THEN 0 ELSE 3 - used

\* a marker precedes toks[i] and fewer than 3 ordinary tokens lie between
\* the most recent marker and toks[i]
FlippedAt(toks, i) ==
    LET m == LastMarker(toks, i - 1)
    IN  m > 0 /\ OrdinaryIn(toks, m + 1, i - 1) < 3

\* caller c scans one token in this step
Scans(c) == pc[c] = "scan" /\ tok_i'[c] = tok_i[c] + 1

\* what the step adds to the score of caller c
Added(c) == score'[c] - score[c]

\* the token caller c is about to scan
Current(c) == tokens[c][tok_i[c]]

C3_WindowValue ==
    \A c \in Callers :
        pc[c] = "scan" =>
            negate_window[c] = WindowAfter(tokens[c], tok_i[c] - 1)

C3_FlipStep ==
    \A c \in Callers :
        (Scans(c) /\ Polarity(Current(c)) # 0) =>
            (Added(c) * Polarity(Current(c)) < 0
                <=> FlippedAt(tokens[c], tok_i[c]))

PolarityIn(toks, a, b) ==
    Cardinality({k \in a..b : Ordinary(toks[k]) /\ Polarity(toks[k]) # 0})

\* toks[i] is among the first 3 polarity tokens after the last marker
AmongNextThreePolarity(toks, i) ==
    LET m == LastMarker(toks, i - 1)
    IN  m > 0 /\ PolarityIn(toks, m + 1, i - 1) < 3

ButBefore(toks, i) == \E j \in 1..(i - 1) : toks[j] = "but"

\* what toks[i] adds when flip tells whether it is flipped
Contribution(toks, i, flip) ==
    IF ~Ordinary(toks[i]) THEN 0
    ELSE Polarity(toks[i]) * (IF flip THEN 0 - 1 ELSE 1)
                           * (IF ButBefore(toks, i) THEN 2 ELSE 1)

RECURSIVE TotalByTokens(_, _)
\* the scan total when the window counts every ordinary token
TotalByTokens(toks, i) ==
    IF i > Len(toks) THEN 0
    ELSE Contribution(toks, i, FlippedAt(toks, i))
            + TotalByTokens(toks, i + 1)

RECURSIVE TotalByPolarity(_, _)
\* the scan total when the window counts polarity tokens only
TotalByPolarity(toks, i) ==
    IF i > Len(toks) THEN 0
    ELSE Contribution(toks, i, AmongNextThreePolarity(toks, i))
            + TotalByPolarity(toks, i + 1)

PhraseTotal(s) == TheWeight * Cardinality(Matched(Lower(s), ThePhrase))

C5_FlagValue ==
    \A c \in Callers :
        pc[c] = "scan" => (after_but[c] <=> ButBefore(tokens[c], tok_i[c]))

C5_Step ==
    \A c \in Callers :
        Scans(c) =>
            /\ after_but[c] => after_but'[c]
            /\ Polarity(Current(c)) # 0 =>
                  Added(c) \in (IF after_but[c] THEN {0 - 2, 2}
                                               ELSE {0 - 1, 1})

\* C5: after_but is true exactly from the first "but" on and stays true to
\* the end of the scan; a polarity token scanned after it adds 2 or -2, one
\* scanned before it adds 1 or -1, whatever else was scanned.
C5_StickyDoubling == [] C5_FlagValue /\ [][C5_Step]_vars

C5_Witness ==
    \E c \in Callers :
        /\ text[c] = "the food is delicious but the service was bad"
        /\ Returned(c)
        /\ after_but[c]
        /\ score[c] = 0 - 1 /\ label[c] = "negative"

(* ------------------------------- C6 ------------------------------------ *)

\* C6: a token of base delta d adds d, negated if negate_window > 0 at
\* that token, then doubled if after_but holds; a token of base delta 0,
\* "but" and the negation markers add nothing.
C6_FlipThenDouble ==
    [][\A c \in Callers :
          Scans(c) =>
              LET d     == IF Ordinary(Current(c))
                           THEN Polarity(Current(c)) ELSE 0
                  signd == IF negate_window[c] > 0 THEN 0 - d ELSE d
              IN  Added(c) = IF after_but[c] THEN signd + signd ELSE signd]_vars

\* a positive word under negation and after "but" has added -2
C6_Witness ==
    \E c \in Callers :
        /\ text[c] = "but not good"
        /\ Returned(c)
        /\ score[c] = 0 - 2 /\ label[c] = "negative"

(* ------------------------------- C7 ------------------------------------ *)

Labels == {"positive", "negative", "neutral"}

\* caller c is inside analyze_sentiment
InCall(c) == pc[c] \in {"enter", "mask", "tokenize", "scan"}

\* C7: inside a call every index the code uses is in range, so that no
\* step raises, and the call returns one of the three labels: "positive"
\* iff the final score is above 0, "negative" iff it is below 0, "neutral"
\* iff it is 0 (a call that returns early has no score and returns
\* "neutral").
C7_TotalAndThreeLabels ==
    \A c \in Callers :
        /\ pc[c] \in {"input", "idle", "done"} \/ InCall(c) \/ Returned(c)
        /\ pc[c] = "mask" =>
              /\ phrase_i[c] \in 1..Len(PHRASE_SENTIMENT)
              /\ start[c] \in 0..Len(working_text[c])
        /\ pc[c] = "scan" => tok_i[c] \in 1..(Len(tokens[c]) + 1)
        /\ Returned(c) =>
              /\ label[c] \in Labels
              /\ Blank(text[c]) => label[c] = "neutral"
              /\ ~Blank(text[c]) =>
                    /\ label[c] = "positive" <=> score[c] > 0
                    /\ label[c] = "negative" <=> score[c] < 0
                    /\ label[c] = "neutral" <=> score[c] = 0

\* a non-blank input whose score ends at 0
C7_Witness ==
    \E c \in Callers :
        /\ text[c] = "good bad"
        /\ Returned(c)
        /\ score[c] = 0 /\ label[c] = "neutral"

(* ------------------------------- C8 ------------------------------------ *)

\* C8: on the empty string and on whitespace-only input the call returns
\* "neutral", which is also the label the code below the early return
\* gives for that input.
C8_EarlyReturnEquivalent ==
    \A c \in Callers :
        (Returned(c) /\ Blank(text[c])) =>
            /\ label[c] = "neutral"
            /\ Scored(text[c]) = label[c]

C8_Witness ==
    \E c \in Callers :
        /\ text[c] = " \t "
        /\ Returned(c)
        /\ label[c] = "neutral"

(* ------------------------------- C9 ------------------------------------ *)

\* the label analyze_sentiment owes for the text s, whoever calls and
\* whatever ran before
LabelOf(s) == IF Blank(s) THEN "neutral" ELSE Scored(s)

C9_LabelOfTextAlone ==
    \A c \in Callers : Returned(c) => label[c] = LabelOf(text[c])

\* the locals of caller c
Locals(c) ==
    <<text[c], working_text[c], score[c], phrase_i[c], start[c], tokens[c],
      tok_i[c], negate_window[c], after_but[c], label[c]>>

C9_FreshAndPrivate ==
    \A c \in Callers :
        /\ (pc[c] = "enter" /\ pc'[c] = "mask") =>
              score'[c] = 0 /\ working_text'[c] = Lower(text[c])
        /\ (pc[c] = "tokenize" /\ pc'[c] = "scan") =>
              negate_window'[c] = 0 /\ ~after_but'[c]
        /\ (pc'[c] # pc[c] \/ tok_i'[c] # tok_i[c]) =>
              \A d \in Callers \ {c} : Locals(d)' = Locals(d)

\* C9: whatever calls ran before and whatever calls run alongside, a call
\* returns the label of its own text; score and working_text start from 0
\* and the lowercased text, negate_window and after_but from 0 and false,
\* and a step of one call leaves the locals of every other call alone.
C9_CallsIndependent == [] C9_LabelOfTextAlone /\ [][C9_FreshAndPrivate]_vars

\* a second call returns while its first call left a score behind and
\* another caller is in the middle of its scan
C9_Witness ==
    \E c, d \in Callers :
        /\ c # d
        /\ ncalls[c] = 2 /\ Returned(c)
        /\ text[c] = "" /\ score[c] = 1 /\ label[c] = "neutral"
        /\ pc[d] = "scan" /\ tok_i[d] = 4 /\ after_but[d]

(* ------------------------------- C10 ----------------------------------- *)

\* C10: at end of input the shell passes the empty string and prints
\* "neutral sentiment"; otherwise it passes the line read and prints its
\* label followed by " sentiment"; input() never leaves the shell with an
\* exception nobody handles.
C10_ShellPrints ==
    \A c \in Callers :
        /\ pc[c] # "raised"
        /\ (stdin.eof /\ pc[c] # "input") => text[c] = ""
        /\ (~stdin.eof /\ pc[c] # "input") => text[c] = stdin.line
        /\ pc[c] = "done" =>
              IF stdin.eof
              THEN output = "neutral sentiment"
              ELSE output = LabelOf(stdin.line) \o " sentiment"

C10_Witness ==
    \E c \in Callers :
        /\ stdin.eof
        /\ pc[c] = "done"
        /\ text[c] = ""
        /\ output = "neutral sentiment"

(* ------------------------------- C11 ----------------------------------- *)

\* the two adjustments in the other order: double after "but", then flip
DoubleThenFlip(d, flip, dbl) ==
    LET doubled == IF dbl THEN d * 2 ELSE d
    IN  IF flip THEN doubled * (0 - 1) ELSE doubled

RECURSIVE TotalSwapped(_, _)
\* the scan total with the two adjustments in the other order
TotalSwapped(toks, i) ==
    IF i > Len(toks) THEN 0
    ELSE (IF Ordinary(toks[i])
          THEN DoubleThenFlip(Polarity(toks[i]), FlippedAt(toks, i),
                              ButBefore(toks, i))
          ELSE 0) + TotalSwapped(toks, i + 1)

\* some polarity token of toks is both flipped and doubled
FlipsAndDoubles(toks) ==
    \E i \in 1..Len(toks) :
        /\ Ordinary(toks[i]) /\ Polarity(toks[i]) # 0
        /\ FlippedAt(toks, i) /\ ButBefore(toks, i)

\* C11 as stated: on an input that combines negation and "but" on one
\* token, doubling before flipping gives another score than the code's.
C11_SwapChangesResult ==
    \A c \in Callers :
        (Returned(c) /\ ~Blank(text[c]) /\ FlipsAndDoubles(tokens[c])) =>
            score[c] # PhraseTotal(text[c]) + TotalSwapped(tokens[c], 1)

\* C11 amended: doubling before flipping gives the score the code gives,
\* on every input.
C11_SwapChangesNothing ==
    \A c \in Callers :
        (Returned(c) /\ ~Blank(text[c])) =>
            score[c] = PhraseTotal(text[c]) + TotalSwapped(tokens[c], 1)

\* "bad" is the third token after the marker and comes after "but"
C11_Witness ==
    \E c \in Callers :
        /\ text[c] = "not that good but bad"
        /\ Returned(c)
        /\ FlipsAndDoubles(tokens[c])
        /\ score[c] = 1 /\ label[c] = "positive"

(* ------------------------------- C12 ----------------------------------- *)

\* offsets at which a maximal run of [\w'] characters of s begins
RunStarts(s) ==
    {p \in 0..(Len(s) - 1) :
        /\ CharAt(s, p) \in TokenChars
        /\ p = 0 \/ CharAt(s, p - 1) \notin TokenChars}

\* the offset just past the maximal run that begins at p
RunStop(s, p) ==
    CHOOSE e \in (p + 1)..Len(s) :
        /\ \A k \in p..(e - 1) : CharAt(s, k) \in TokenChars
        /\ e = Len(s) \/ CharAt(s, e) \notin TokenChars

RECURSIVE RunsFrom(_, _)
\* the maximal runs of s that begin at offset p or later, in order
RunsFrom(s, p) ==
    LET later == {b \in RunStarts(s) : b >= p}
    IN  IF later = {} THEN << >>
        ELSE LET b == CHOOSE x \in later : \A y \in later : x <= y
             IN  << SubSeq(s, b + 1, RunStop(s, b)) >>
                    \o RunsFrom(s, RunStop(s, b))

MaximalRuns(s) == RunsFrom(s, 0)

\* run without its leading and trailing apostrophes; "" if nothing is left
Trimmed(run) ==
    LET ws == {i \in 1..Len(run) : SubSeq(run, i, i) \in WordChars}
    IN  IF ws = {} THEN ""
        ELSE SubSeq(run, CHOOSE i \in ws : \A j \in ws : i <= j,
                         CHOOSE i \in ws : \A j \in ws : j <= i)

RECURSIVE TrimmedRuns(_)
\* the runs of rs trimmed, those that trim to nothing dropped
TrimmedRuns(rs) ==
    IF Len(rs) = 0 THEN << >>
    ELSE (IF Trimmed(rs[1]) = "" THEN << >> ELSE << Trimmed(rs[1]) >>)
            \o TrimmedRuns(Tail(rs))

\* C12 as stated: the tokens are exactly the maximal runs of word
\* characters and apostrophes of the lowercased text, in order.
C12_TokensAreMaximalRuns ==
    \A c \in Callers :
        (Returned(c) /\ ~Blank(text[c])) =>
            tokens[c] = MaximalRuns(Lower(working_text[c]))

\* C12 amended: the tokens are, in order, the maximal runs of word
\* characters and apostrophes of the lowercased text without their leading
\* and trailing apostrophes, a run of apostrophes alone giving no token;
\* no token holds a character other than a word character or apostrophe.
C12_TokensAreTrimmedRuns ==
    \A c \in Callers :
        (Returned(c) /\ ~Blank(text[c])) =>
            /\ tokens[c] = TrimmedRuns(MaximalRuns(Lower(working_text[c])))
            /\ \A i \in 1..Len(tokens[c]) :
                  \A k \in 1..Len(tokens[c][i]) :
                     SubSeq(tokens[c][i], k, k) \in TokenChars

\* the run 'good' gives the token good
C12_Witness ==
    \E c \in Callers :
        /\ text[c] = "'good'"
        /\ Returned(c)
        /\ tokens[c] = << "good" >>
        /\ score[c] = 1

(* ------------------------------- C13 ----------------------------------- *)

\* the step leaves everything of the scan but the flags and the score alone
ScanFrame(c) ==
    /\ tokens'[c] = tokens[c]
    /\ working_text'[c] = working_text[c]
    /\ text'[c] = text[c]

C13_ButStep ==
    \A c \in Callers :
        (Scans(c) /\ Current(c) = "but") =>
            /\ after_but'[c]
            /\ score'[c] = score[c]
            /\ negate_window'[c] = negate_window[c]
            /\ ScanFrame(c)

C13_MarkerStep ==
    \A c \in Callers :
        (Scans(c) /\ Current(c) \in NEGATIONS) =>
            /\ negate_window'[c] = 3
            /\ score'[c] = score[c]
            /\ after_but'[c] = after_but[c]
            /\ ScanFrame(c)

\* C13: scanning "but" sets after_but and leaves the score and
\* negate_window as they were; scanning a negation marker sets
\* negate_window to 3, not 2, and leaves the score and after_but as they
\* were.
C13_ButAndMarkerFrames == [][C13_ButStep /\ C13_MarkerStep]_vars

\* "but" has just been scanned with one left in the window the marker set
C13_Witness ==
    \E c \in Callers :
        /\ text[c] = "not that good but bad"
        /\ pc[c] = "scan" /\ tok_i[c] = 5
        /\ negate_window[c] = 1
        /\ after_but[c]
        /\ score[c] = 0 - 1

(* ------------------------------- C14 ----------------------------------- *)

\* the step of caller c is a pass of the masker that found the phrase
MaskHit(c) == pc[c] = "mask" /\ score'[c] # score[c]

C14_MaskStep ==
    \A c \in Callers :
        MaskHit(c) =>
            LET phrase == PHRASE_SENTIMENT[phrase_i[c]].phrase
                L      == Len(phrase)
                b      == start'[c] - L
                old    == working_text[c]
                new    == working_text'[c]
            IN  /\ b >= start[c]
                /\ SubSeq(old, b + 1, b + L) = phrase
                /\ Len(new) = Len(old)
                /\ \A i \in 0..(Len(old) - 1) :
                      CharAt(new, i) = IF b <= i /\ i < b + L THEN " "
                                                             ELSE CharAt(old, i)
                /\ {i \in Occurrences(new, phrase) : i >= start'[c]}
                      = {i \in Occurrences(old, phrase) : i >= start'[c]}

\* C14: a pass of the phrase masker that finds the phrase keeps the length
\* of working_text, sets every character of the matched span to a space
\* and leaves every other character as it was, so the occurrences further
\* right are found at the offsets they had.
C14_MaskKeepsOffsets == [][C14_MaskStep]_vars

\* the first of two occurrences is masked, the second is still to find
C14_Witness ==
    \E c \in Callers :
        /\ text[c] = "good taste good taste"
        /\ pc[c] = "mask"
        /\ working_text[c] = "           good taste"
        /\ start[c] = 10
        /\ score[c] = 0 - 2

(* ------------------------------- C15 ----------------------------------- *)

\* passes of the masker that found the phrase so far, from the score
C15_Bound ==
    \A c \in Callers :
        pc[c] \in {"mask", "tokenize"} =>
            \E k \in 0..(Len(text[c]) \div Len(ThePhrase)) :
                /\ score[c] = k * TheWeight
                /\ pc[c] = "mask" => k * Len(ThePhrase) <= start[c]
                /\ start[c] <= Len(text[c])

C15_Advance ==
    \A c \in Callers :
        /\ MaskHit(c) =>
              /\ Len(PHRASE_SENTIMENT[phrase_i[c]].phrase) >= 1
              /\ start'[c] >= start[c]
                                + Len(PHRASE_SENTIMENT[phrase_i[c]].phrase)
        /\ (pc[c] = "scan" /\ pc'[c] = "scan") =>
              /\ tok_i'[c] = tok_i[c] + 1
              /\ tok_i'[c] <= Len(tokens[c]) + 1
              /\ tokens'[c] = tokens[c]

C15_CallEnds ==
    (\E c \in Callers : pc[c] \in {"enter", "mask", "tokenize", "scan"})
        ~> (\A c \in Callers : Returned(c))

\* C15: every pass of the masker that finds the phrase moves start forward
\* by at least the length L >= 1 of the phrase, so there are at most
\* floor(len(text)/L) such passes; the scan then takes the tokens one by
\* one, once each, and every call of analyze_sentiment returns.
C15_MaskerAndCallTerminate ==
    [] C15_Bound /\ [][C15_Advance]_vars /\ C15_CallEnds

\* 21 characters, phrase of 10: both passes the bound allows were taken
C15_Witness ==
    \E c \in Callers :
        /\ text[c] = "good taste good taste"
        /\ pc[c] = "done"
        /\ score[c] = 2 * TheWeight
        /\ start[c] = 21

(* ------------------------------- C16 ----------------------------------- *)

C16_Window ==
    \A c \in Callers : pc[c] = "scan" => negate_window[c] \in 0..3

C16_Step ==
    \A c \in Callers :
        Scans(c) =>
            /\ after_but[c] => after_but'[c]
            /\ Added(c) \in {0 - 2, 0 - 1, 0, 1, 2}
            /\ Added(c) \in {0 - 2, 2} => after_but[c]
            /\ negate_window'[c] \in 0..3

\* C16: during the token scan negate_window is 0, 1, 2 or 3, after_but
\* never goes from true to false, and one token changes the score by -2,
\* -1, 0, 1 or 2, by 2 or -2 only when after_but is true.
C16_ScanRanges == [] C16_Window /\ [][C16_Step]_vars

\* the window is down to 0, after_but is set and the flipped "good" has
\* added -2
C16_Witness ==
    \E c \in Callers :
        /\ text[c] = "not that that but good"
        /\ pc[c] = "scan" /\ tok_i[c] = 6
        /\ negate_window[c] = 0
        /\ after_but[c]
        /\ score[c] = 0 - 2

(* ------------------------------- C17 ----------------------------------- *)

\* the tokens of low once the matched spans are blanked
Unmasked(low) == TrimmedRuns(MaximalRuns(Blanked(low)))

C17_Result ==
    \A c \in Callers :
        (Returned(c) /\ ~Blank(text[c])) =>
            LET seen == Unmasked(Lower(text[c]))
            IN  /\ tokens[c] = seen
                /\ score[c] = TheWeight
                                 * Cardinality(Matched(Lower(text[c]),
                                                       ThePhrase))
                               + TotalByTokens(seen, 1)

C17_Steps ==
    \A c \in Callers :
        /\ MaskHit(c) =>
              Added(c) = PHRASE_SENTIMENT[phrase_i[c]].weight
        /\ Scans(c) =>
              /\ tokens[c] = Unmasked(Lower(text[c]))
              /\ negate_window[c] = WindowAfter(tokens[c], tok_i[c] - 1)

\* C17: every occurrence of the phrase adds its weight as declared,
\* neither flipped by a marker before it nor doubled by a "but" before it,
\* and the scan runs on the tokens left once the occurrences are blanked:
\* the window of a marker is counted on those tokens alone, so a polarity
\* token among the first 3 of them after the marker is flipped.
C17_PhraseUnmodifiedAndInvisible == [] C17_Result /\ [][C17_Steps]_vars

\* the phrase adds -2 after "not" and the "good" behind it is flipped
C17_Witness ==
    \E c \in Callers :
        /\ text[c] = "not good taste good"
        /\ Returned(c)
        /\ tokens[c] = <<"not", "good">>
        /\ score[c] = 0 - 3

\* the phrase adds -2 after "but"
C17_WitnessBut ==
    \E c \in Callers :
        /\ text[c] = "but good taste"
        /\ Returned(c)
        /\ tokens[c] = << "but" >>
        /\ score[c] = 0 - 2

(* ------------------------------- C18 ----------------------------------- *)

\* low with every occurrence of the phrase blanked, wherever it begins
\* and ends
RawBlanked(low) ==
    BlankedFrom(low, Occurrences(low, ThePhrase), Len(ThePhrase), 0)

\* C18: every occurrence of the phrase as a substring of the lowercased
\* text counts, also one that begins or ends inside a longer word, and
\* what is left of that word is a token of its own with the polarity it
\* has as a word.
C18_RawSubstringMatch ==
    \A c \in Callers :
        /\ pc[c] = "tokenize" =>
              score[c] = TheWeight
                           * Cardinality(Occurrences(Lower(text[c]),
                                                     ThePhrase))
        /\ (Returned(c) /\ ~Blank(text[c])) =>
              /\ tokens[c] = TrimmedRuns(MaximalRuns(
                                RawBlanked(Lower(text[c]))))
              /\ score[c] = TheWeight
                              * Cardinality(Occurrences(Lower(text[c]),
                                                        ThePhrase))
                            + TotalByTokens(tokens[c], 1)

\* the phrase ends inside "tastebad": -2, and "bad" is left and adds -1
C18_Witness ==
    \E c \in Callers :
        /\ text[c] = "good tastebad"
        /\ Returned(c)
        /\ tokens[c] = << "bad" >>
        /\ score[c] = 0 - 3

\* the phrase begins inside "nogood": -2, and "no" is left as a marker
C18_WitnessBegins ==
    \E c \in Callers :
        /\ text[c] = "nogood taste"
        /\ Returned(c)
        /\ tokens[c] = << "no" >>
        /\ score[c] = 0 - 2

(* ------------------------------- C19 ----------------------------------- *)

\* no entry of list occurs twice
Distinct(list) ==
    \A i, j \in 1..Len(list) : i # j => list[i] # list[j]

\* the products self.products lists under category, all of them
ProductsOf(category) ==
    UNION {UNION {{products[i].subcategories[j].products[k] :
                      k \in DOMAIN products[i].subcategories[j].products} :
                  j \in DOMAIN products[i].subcategories} :
           i \in {x \in DOMAIN products : products[x].category = category}}

\* C19: get_recommendations returns a list without duplicates of at most
\* num_recommendations products, whatever the search term, the history and
\* the random draws; when the term maps to a category of the catalog that
\* holds at least num_recommendations products, it returns exactly
\* num_recommendations products, all of that category.  (No category of
\* self.products lists a product twice.)
C19_DistinctAndExact ==
    rpc = "answered" =>
        LET category == get_category_from_search(search_term)
            n == num_recommendations
        IN  /\ Distinct(recommendations)
            /\ Len(recommendations) <= n
            /\ (category \in Categories
                  /\ n <= Len(Flatten(category_products(category), 1))) =>
                  /\ Len(recommendations) = n
                  /\ \A i \in 1..n :
                        recommendations[i] \in ProductsOf(category)
            /\ \A i \in DOMAIN products :
                  Distinct(Flatten(products[i].subcategories, 1))

\* a book was searched after phones: the three books, no phone among them
C19_Witness ==
    /\ rpc = "answered"
    /\ search_term = "Novel" /\ num_recommendations = 3
    /\ user_history = Earlier
    /\ Len(recommendations) = 3
    /\ \A i \in 1..3 : recommendations[i] \in ProductsOf("books")

\* more asked for than the category holds: a drawn book came again from
\* the history and was dropped
C19_WitnessDropped ==
    /\ rpc = "answered"
    /\ search_term = "Novel" /\ num_recommendations = 4
    /\ user_history = << "novel" >>
    /\ Len(recommendations) = 3

\* a term of no category: what the history gives, cut to the number asked
C19_WitnessGeneral ==
    /\ rpc = "answered"
    /\ search_term = "shoes" /\ num_recommendations = 1
    /\ user_history = Earlier
    /\ Len(recommendations) = 1

====
